---- MODULE Spec2Model ----
(***************************************************************************)
(* KnowledgeGraph (graph/knowledge_graph.py): the node store, the goal     *)
(* resolver traverse_for_goal and the JSON codec.                          *)
(*                                                                         *)
(* A graph is the dict self.nodes in insertion order: a sequence of node   *)
(* records [id, type, data, edges].  A node id is a Python str, kept as    *)
(* the sequence of its character codes so that sorted() compares ids the   *)
(* way Python compares strings.  A metadata dict is a function from its    *)
(* keys to Python values; an optional argument is <<>> (None) or <<v>>.    *)
(***************************************************************************)
EXTENDS Naturals, Sequences, FiniteSets, TLC

\* ------------------------------------------------------------------ bounds
MaxNodes == 3
MaxEdges == 2
MaxVisited == 1

\* ------------------------------------------------------------- input sets
\* "a", "ab", "b" as character codes (a = 1, b = 2).
Ids == {<<1>>, <<1, 2>>, <<2>>}
\* The ids the store's runs and the step-by-step dfs create nodes for; <<1>>
\* stays absent there.
TwoIds == {<<1, 2>>, <<2>>}
Types == {"event", "tool"}
\* Python values a metadata key is given: True, False, a non-empty string.
PyVals == {"True", "False", "'yes'"}

\* ------------------------------------------------------------ Python bits
EmptyDict == [k \in {} |-> "True"]

Dict1(k, v) == [x \in {k} |-> v]

\* bool(v) of a Python value.
Truthy(v) == v \in {"True", "'yes'"}

\* `v is True`.
IsTrue(v) == v = "True"

\* dict.get(key, default), with the default given as a Python value.
DictGet(d, k, default) == IF k \in DOMAIN d THEN d[k] ELSE default

\* dict.update(other).
DictUpdate(d, other) ==
  [k \in (DOMAIN d) \cup (DOMAIN other) |-> IF k \in DOMAIN other THEN other[k] ELSE d[k]]

\* str < str: lexicographic on character codes, a proper prefix first.
RECURSIVE StrLess(_, _)
StrLess(x, y) ==
  IF y = <<>> THEN FALSE
  ELSE IF x = <<>> THEN TRUE
  ELSE IF Head(x) # Head(y) THEN Head(x) < Head(y)
  ELSE StrLess(Tail(x), Tail(y))

Range(s) == {s[i] : i \in 1..Len(s)}

\* ------------------------------------------------------------ EdgeType
\* The enum's members; EdgeTypeValue is member.value and EdgeTypeOf is the
\* lookup EdgeType(value), <<>> where Python raises ValueError.
EdgeType == {"EdgeType.AND", "EdgeType.OR", "EdgeType.IMPLIES", "EdgeType.NOT"}

EdgeTypeValue(t) ==
  CASE t = "EdgeType.AND" -> "AND"
    [] t = "EdgeType.OR" -> "OR"
    [] t = "EdgeType.IMPLIES" -> "IMPLIES"
    [] t = "EdgeType.NOT" -> "NOT"

EdgeTypeOf(value) ==
  LET hit == {t \in EdgeType : EdgeTypeValue(t) = value}
  IN IF hit = {} THEN <<>> ELSE <<CHOOSE t \in hit : TRUE>>

\* ------------------------------------------------------------ Node, Edge
\* Node.__init__: data or {} ; edges = [].
Node(node_id, node_type, data) ==
  [id |-> node_id, type |-> node_type,
   data |-> IF data # <<>> /\ DOMAIN data[1] # {} THEN data[1] ELSE EmptyDict,
   edges |-> <<>>]

\* Edge.__init__: source and target are kept by reference; the ids are what
\* every reader of an edge uses (edge.source.id, edge.target.id).
Edge(source, target, edge_type) ==
  [source |-> source, target |-> target, type |-> edge_type]

\* ------------------------------------------------------------ Graph store
NodeIds(G) == {G[i].id : i \in 1..Len(G)}

IndexOf(G, node_id) == CHOOSE i \in 1..Len(G) : G[i].id = node_id

\* get_node: self.nodes.get(node_id), None as <<>>.
get_node(G, node_id) ==
  IF node_id \in NodeIds(G) THEN <<G[IndexOf(G, node_id)]>> ELSE <<>>

NumEdges(G) ==
  LET RECURSIVE Sum(_)
      Sum(i) == IF i = 0 THEN 0 ELSE Len(G[i].edges) + Sum(i - 1)
  IN Sum(Len(G))

add_node_overwrite(G, node_id, node_type, data) ==
  IF node_id \notin NodeIds(G) THEN Append(G, Node(node_id, node_type, data))
  ELSE [G EXCEPT ![IndexOf(G, node_id)] = Node(node_id, node_type, data)]

\* add_node: creates the node only when the id is not a key yet.
add_node(G, node_id, node_type, data) ==
  IF node_id \notin NodeIds(G) THEN Append(G, Node(node_id, node_type, data)) ELSE G

add_edge_unchecked_target(G, source_id, target_id, edge_type) ==
  IF source_id \notin NodeIds(G) THEN [nodes |-> G, err |-> "KeyError"]
  ELSE LET i == IndexOf(G, source_id)
       IN [nodes |-> [G EXCEPT ![i].edges =
                         Append(@, Edge(source_id, target_id, edge_type))],
           err |-> "none"]

\* add_edge: self.nodes[source_id], self.nodes[target_id] raise KeyError
\* before anything is written.
add_edge(G, source_id, target_id, edge_type) ==
  IF source_id \notin NodeIds(G) THEN [nodes |-> G, err |-> "KeyError"]
  ELSE IF target_id \notin NodeIds(G) THEN [nodes |-> G, err |-> "KeyError"]
  ELSE LET i == IndexOf(G, source_id)
       IN [nodes |-> [G EXCEPT ![i].edges =
                         Append(@, Edge(source_id, target_id, edge_type))],
           err |-> "none"]

\* update_node: ValueError when absent; `if node_type:` and `if data:` test
\* truthiness, so None, "" and {} change nothing.
update_node(G, node_id, node_type, data) ==
  IF get_node(G, node_id) = <<>> THEN [nodes |-> G, err |-> "ValueError"]
  ELSE LET i == IndexOf(G, node_id)
           t == IF node_type # <<>> /\ node_type[1] # "" THEN node_type[1] ELSE G[i].type
           d == IF data # <<>> /\ DOMAIN data[1] # {}
                THEN DictUpdate(G[i].data, data[1]) ELSE G[i].data
       IN [nodes |-> [G EXCEPT ![i].type = t, ![i].data = d], err |-> "none"]

prune_node_only(G, node_id) ==
  LET KeepNode(n) == n.id # node_id
  IN SelectSeq(G, KeepNode)

\* prune_node: drops, in every node, the edges whose target is node_id, then
\* the node itself (and with it the edges it owns).
prune_node(G, node_id) ==
  IF node_id \notin NodeIds(G) THEN G
  ELSE LET KeepEdge(e) == e.target # node_id
           KeepNode(n) == n.id # node_id
           scrubbed == [i \in 1..Len(G) |->
                          [G[i] EXCEPT !.edges = SelectSeq(@, KeepEdge)]]
       IN SelectSeq(scrubbed, KeepNode)

FailedIdsTruthy(G) ==
  LET IsFailed(n) == Truthy(DictGet(n.data, "failed", "None"))
      failed == SelectSeq(G, IsFailed)
  IN [i \in 1..Len(failed) |-> failed[i].id]

\* The comprehension of prune_failed_nodes: ids, in dict order, whose
\* data.get("failed") is True.
FailedIds(G) ==
  LET IsFailed(n) == IsTrue(DictGet(n.data, "failed", "None"))
      failed == SelectSeq(G, IsFailed)
  IN [i \in 1..Len(failed) |-> failed[i].id]

RECURSIVE PruneAll(_, _)
PruneAll(G, to_remove) ==
  IF to_remove = <<>> THEN G
  ELSE PruneAll(prune_node(G, Head(to_remove)), Tail(to_remove))

prune_failed_nodes(G) == PruneAll(G, FailedIds(G))

\* ------------------------------------------------------------ Goal resolver
\* The incoming list of dfs: (edge, other_node) pairs, nodes in dict order and
\* each node's edges in list order, kept when edge.target.id == node.id.
incoming(G, node_id) ==
  LET RECURSIVE Scan(_)
      Scan(i) ==
        IF i > Len(G) THEN <<>>
        ELSE LET Hits(e) == e.target = node_id
                 mine == SelectSeq(G[i].edges, Hits)
             IN [k \in 1..Len(mine) |-> [edge |-> mine[k], node |-> G[i].id]]
                \o Scan(i + 1)
  IN Scan(1)

IsAndEdgeOnly(p) == p.edge.type = "EdgeType.AND"

IsAndEdge(p) == p.edge.type \in {"EdgeType.AND", "EdgeType.IMPLIES"}
IsOrEdge(p) == p.edge.type = "EdgeType.OR"
IsNotEdge(p) == p.edge.type = "EdgeType.NOT"

and_edges(G, node_id) == SelectSeq(incoming(G, node_id), IsAndEdge)
or_edges(G, node_id) == SelectSeq(incoming(G, node_id), IsOrEdge)
not_edges(G, node_id) == SelectSeq(incoming(G, node_id), IsNotEdge)

SourceVisitedDefaultTrue(G, source_id) ==
  Truthy(DictGet(G[IndexOf(G, source_id)].data, "visited", "True"))

\* source_node.data.get("visited", False), taken for its truth value.
SourceVisited(G, source_id) ==
  Truthy(DictGet(G[IndexOf(G, source_id)].data, "visited", "False"))

BlockedOwn(G, node_id) ==
  \E p \in Range(not_edges(G, node_id)) : SourceVisited(G, node_id)

\* The NOT loop of dfs: some NOT source is visited.
Blocked(G, node_id) ==
  \E p \in Range(not_edges(G, node_id)) : SourceVisited(G, p.node)

chosenLast(G, node_id) ==
  LET cands == {p.node : p \in Range(or_edges(G, node_id))}
  IN CHOOSE c \in cands : \A d \in cands : ~StrLess(c, d)

\* sorted(or_edges, key=id)[0][1]: the source with the smallest id.
chosen(G, node_id) ==
  LET cands == {p.node : p \in Range(or_edges(G, node_id))}
  IN CHOOSE c \in cands : \A d \in cands : ~StrLess(d, c)

\* The dfs calls a node makes once it is past the NOT check, in call order.
Calls(G, node_id) ==
  LET ands == and_edges(G, node_id)
  IN [k \in 1..Len(ands) |-> ands[k].node]
     \o (IF or_edges(G, node_id) # <<>> THEN <<chosen(G, node_id)>> ELSE <<>>)

\* The recursion of dfs as a stack of frames, the top first.  A frame at
\* "enter" is a call dfs(node) that has not run yet; a frame at "loop" is a
\* call past the NOT check, with the dfs calls it still has to make.
Frame(node_id, pc, todo) == [node |-> node_id, pc |-> pc, todo |-> todo]

NoCall == [stack |-> <<>>, visited |-> {}, path |-> <<>>]

StartDfs(goal_id) ==
  [stack |-> <<Frame(goal_id, "enter", <<>>)>>, visited |-> {}, path |-> <<>>]

EnterDfsNoGuard(G, st, top, rest) ==
  IF Blocked(G, top.node) THEN [st EXCEPT !.stack = rest]
  ELSE [st EXCEPT !.stack = <<Frame(top.node, "loop", Calls(G, top.node))>> \o rest]

\* `if node.id in visited: return` / `visited.add(node.id)`.
EnterDfs(G, st, top, rest) ==
  IF top.node \in st.visited THEN [st EXCEPT !.stack = rest]
  ELSE IF Blocked(G, top.node)
       THEN [st EXCEPT !.stack = rest, !.visited = @ \cup {top.node}]
       ELSE [st EXCEPT !.stack = <<Frame(top.node, "loop", Calls(G, top.node))>> \o rest,
                       !.visited = @ \cup {top.node}]

\* One step of the running dfs.
DfsStep(G, st) ==
  LET top == Head(st.stack)
      rest == Tail(st.stack)
  IN IF top.pc = "enter" THEN EnterDfs(G, st, top, rest)
     ELSE IF top.todo = <<>>
          THEN [st EXCEPT !.stack = rest, !.path = Append(@, top.node)]
          ELSE [st EXCEPT !.stack = <<Frame(Head(top.todo), "enter", <<>>),
                                      Frame(top.node, "loop", Tail(top.todo))>> \o rest]

RECURSIVE RunDfs(_, _)
RunDfs(G, st) == IF st.stack = <<>> THEN st ELSE RunDfs(G, DfsStep(G, st))

\* traverse_for_goal: the path, and with it the pass's visited set.
traverse_for_goal(G, goal_id) ==
  IF get_node(G, goal_id) = <<>> THEN NoCall ELSE RunDfs(G, StartDfs(goal_id))

\* ------------------------------------------------------------ JSON codec
\* json.dump / json.load of a metadata value.
JsonDump(v) ==
  CASE v = "True" -> "true"
    [] v = "False" -> "false"
    [] v = "'yes'" -> "\"yes\""

JsonLoad(j) ==
  CASE j = "true" -> "True"
    [] j = "false" -> "False"
    [] j = "\"yes\"" -> "'yes'"

\* save_to_json: the document written to the file.
save_to_json(G) ==
  LET RECURSIVE EdgeDocs(_)
      EdgeDocs(i) ==
        IF i > Len(G) THEN <<>>
        ELSE [k \in 1..Len(G[i].edges) |->
                [source |-> G[i].edges[k].source, target |-> G[i].edges[k].target,
                 type |-> EdgeTypeValue(G[i].edges[k].type)]]
             \o EdgeDocs(i + 1)
  IN [nodes |-> [i \in 1..Len(G) |->
                  [id |-> G[i].id, type |-> G[i].type,
                   data |-> [k \in DOMAIN G[i].data |-> JsonDump(G[i].data[k])]]],
      edges |-> EdgeDocs(1)]

RECURSIVE LoadNodes(_, _)
LoadNodes(G, docs) ==
  IF docs = <<>> THEN G
  ELSE LET n == Head(docs)
       IN LoadNodes(add_node(G, n.id, n.type,
                             <<[k \in DOMAIN n.data |-> JsonLoad(n.data[k])]>>),
                    Tail(docs))

RECURSIVE LoadEdges(_, _)
LoadEdges(G, docs) ==
  IF docs = <<>> THEN [nodes |-> G, err |-> "none"]
  ELSE LET e == Head(docs)
           t == EdgeTypeOf(e.type)
       IN IF t = <<>> THEN [nodes |-> G, err |-> "ValueError"]
          ELSE LET r == add_edge(G, e.source, e.target, t[1])
               IN IF r.err # "none" THEN r ELSE LoadEdges(r.nodes, Tail(docs))

load_from_json_keep(G, doc) == LoadEdges(LoadNodes(G, doc.nodes), doc.edges)

\* load_from_json: self.nodes = {}, then the nodes, then the edges.
load_from_json(G, doc) ==
  LET cleared == <<>>
  IN LoadEdges(LoadNodes(cleared, doc.nodes), doc.edges)

\* ------------------------------------------------------------ state
VARIABLES
  nodes,   \* self.nodes
  last,    \* the last call: its name, its error, what it met (info), and for
           \* traverse_for_goal the goal, the returned path and the visited set
  call     \* the running dfs of traverse_for_goal (NoCall when none runs)

vars == <<nodes, last, call>>

Called(op, err, info, goal, result) ==
  [op |-> op, err |-> err, info |-> info, goal |-> goal,
   path |-> result.path, visited |-> result.visited]

\* Number of nodes that carry the metadata key `visited`.
NumVisited(G) == Cardinality({i \in 1..Len(G) : "visited" \in DOMAIN G[i].data})

WithinBounds(G) ==
  /\ Len(G) <= MaxNodes
  /\ NumEdges(G) <= MaxEdges
  /\ NumVisited(G) <= MaxVisited

Idle == call.stack = <<>>

Init ==
  /\ nodes = <<>>
  /\ last = Called("__init__", "none", <<>>, <<>>, NoCall)
  /\ call = NoCall

\* info of add_node: <<1>> when the id was present and the call's type or
\* data differ from the node's, <<0>> when present and equal, <<>> when new.
AddNodeInfo(G, node_id, node_type, data) ==
  IF node_id \notin NodeIds(G) THEN <<>>
  ELSE LET n == G[IndexOf(G, node_id)]
       IN IF n.type # node_type \/ n.data # Node(node_id, node_type, data).data
          THEN <<1>> ELSE <<0>>

AddNode(node_id, node_type, data) ==
  /\ Idle
  /\ nodes' = add_node(nodes, node_id, node_type, data)
  /\ WithinBounds(nodes')
  /\ last' = Called("add_node", "none", AddNodeInfo(nodes, node_id, node_type, data),
                    <<>>, NoCall)
  /\ UNCHANGED call

\* 1 for an id that is a key of the graph, 0 for one that is not.
Present(G, node_id) == IF node_id \in NodeIds(G) THEN 1 ELSE 0

\* info of add_edge: whether the source and the target were present; of
\* update_node: whether the node was.
AddEdge(source_id, target_id, edge_type) ==
  /\ Idle
  /\ LET r == add_edge(nodes, source_id, target_id, edge_type)
     IN /\ nodes' = r.nodes
        /\ last' = Called("add_edge", r.err,
                          <<Present(nodes, source_id), Present(nodes, target_id)>>,
                          <<>>, NoCall)
  /\ WithinBounds(nodes')
  /\ UNCHANGED call

UpdateNode(node_id, node_type, data) ==
  /\ Idle
  /\ LET r == update_node(nodes, node_id, node_type, data)
     IN /\ nodes' = r.nodes
        /\ last' = Called("update_node", r.err, <<Present(nodes, node_id)>>, <<>>, NoCall)
  /\ WithinBounds(nodes')
  /\ UNCHANGED call

\* info of the prune calls: the numbers of nodes and of edges before the call.
PruneNode(node_id) ==
  /\ Idle
  /\ nodes' = prune_node(nodes, node_id)
  /\ last' = Called("prune_node", "none", <<Len(nodes), NumEdges(nodes)>>, <<>>, NoCall)
  /\ UNCHANGED call

PruneFailedNodes ==
  /\ Idle
  /\ nodes' = prune_failed_nodes(nodes)
  /\ last' = Called("prune_failed_nodes", "none", <<Len(nodes), NumEdges(nodes)>>,
                    <<>>, NoCall)
  /\ UNCHANGED call

\* traverse_for_goal, run to its return in one step.
TraverseForGoal(goal_id) ==
  /\ Idle
  /\ last' = Called("traverse_for_goal", "none", <<>>, <<goal_id>>,
                    traverse_for_goal(nodes, goal_id))
  /\ UNCHANGED <<nodes, call>>

\* kg.save_to_json(path) followed by other.load_from_json(path), where the
\* graph `other` holds `prior` before the load; the run goes on with `other`.
SaveThenLoad(prior) ==
  /\ Idle
  /\ LET r == load_from_json(prior, save_to_json(nodes))
     IN /\ nodes' = r.nodes
        /\ last' = Called("load_from_json", r.err, <<Len(prior)>>, <<>>, NoCall)
  /\ WithinBounds(nodes')
  /\ UNCHANGED call

\* traverse_for_goal, one dfs step at a time: the call, then its steps; the
\* step that empties the stack returns the path.
StartTraverse(goal_id) ==
  /\ Idle
  /\ IF get_node(nodes, goal_id) = <<>>
     THEN /\ last' = Called("traverse_for_goal", "none", <<>>, <<goal_id>>, NoCall)
          /\ call' = NoCall
     ELSE /\ call' = StartDfs(goal_id)
          /\ last' = Called("dfs", "none", <<>>, <<goal_id>>, NoCall)
  /\ UNCHANGED nodes

DfsAdvance ==
  /\ ~Idle
  /\ LET st == DfsStep(nodes, call)
     IN IF st.stack = <<>>
        THEN /\ last' = Called("traverse_for_goal", "none", <<>>, last.goal, st)
             /\ call' = NoCall
        ELSE /\ call' = st
             /\ UNCHANGED last
  /\ UNCHANGED nodes

\* ---- the resolver: nodes of one type, `visited` metadata; every call of
\* these runs succeeds (new ids, present endpoints)
VisitedArgs == {<<>>} \cup {<<Dict1("visited", v)>> : v \in PyVals}

Next ==
  \/ \E i \in Ids \ NodeIds(nodes), d \in VisitedArgs : AddNode(i, "event", d)
  \/ \E s \in NodeIds(nodes), t \in NodeIds(nodes), e \in EdgeType : AddEdge(s, t, e)
  \/ \E g \in Ids : TraverseForGoal(g)

Spec == Init /\ [][Next]_vars

\* ---- the store: two node types, one edge type (no store operation reads an
\* edge's type), `failed` metadata, calls that fail included
FailedArgs == {<<>>} \cup {<<Dict1("failed", v)>> : v \in PyVals}

StoreNext ==
  \/ \E i \in TwoIds, t \in Types, d \in FailedArgs : AddNode(i, t, d)
  \/ \E s \in Ids, t \in Ids, e \in {"EdgeType.AND"} : AddEdge(s, t, e)
  \/ \E i \in Ids, t \in {<<>>, <<"tool">>}, d \in FailedArgs : UpdateNode(i, t, d)
  \/ \E i \in Ids : PruneNode(i)
  \/ PruneFailedNodes

SpecStore == Init /\ [][StoreNext]_vars

\* ---- the codec
\* What the loading graph holds before load_from_json: nothing, or a node
\* that blocks itself.
PriorGraphs ==
  {<<>>,
   add_edge(add_node(<<>>, <<2>>, "tool", <<Dict1("visited", "True")>>),
            <<2>>, <<2>>, "EdgeType.NOT").nodes}

CodecNext ==
  \/ \E i \in TwoIds \ NodeIds(nodes), d \in VisitedArgs : AddNode(i, "event", d)
  \/ \E s \in NodeIds(nodes), t \in NodeIds(nodes), e \in EdgeType : AddEdge(s, t, e)
  \/ \E p \in PriorGraphs : SaveThenLoad(p)

SpecCodec == Init /\ [][CodecNext]_vars

\* ---- the dfs, step by step; a call that has started runs on to its return
DfsNext ==
  \/ \E i \in TwoIds \ NodeIds(nodes), d \in {<<>>, <<Dict1("visited", "True")>>} :
       AddNode(i, "event", d)
  \/ \E s \in NodeIds(nodes), t \in NodeIds(nodes), e \in EdgeType : AddEdge(s, t, e)
  \/ \E g \in Ids : StartTraverse(g)
  \/ DfsAdvance

SpecDfs == Init /\ [][DfsNext]_vars /\ WF_vars(DfsAdvance)

\* ------------------------------------------------------------ vocabulary
\* Read off the edge lists, not off the resolver's own helpers.
SourcesOf(G, node_id, types) ==
  {G[i].id : i \in {j \in 1..Len(G) :
      \E k \in 1..Len(G[j].edges) :
        G[j].edges[k].target = node_id /\ G[j].edges[k].type \in types}}

AndSources(G, n) == SourcesOf(G, n, {"EdgeType.AND", "EdgeType.IMPLIES"})
OrSources(G, n) == SourcesOf(G, n, {"EdgeType.OR"})
NotSources(G, n) == SourcesOf(G, n, {"EdgeType.NOT"})

MinId(S) == CHOOSE c \in S : \A d \in S \ {c} : StrLess(c, d)

\* The prerequisites the plan owes a node: every AND/IMPLIES source and the
\* smallest-id OR source.
Prereqs(G, n) ==
  AndSources(G, n) \cup (IF OrSources(G, n) = {} THEN {} ELSE {MinId(OrSources(G, n))})

\* The OR sources the resolver is to leave alone.
OtherOrSources(G, n) ==
  IF OrSources(G, n) = {} THEN {} ELSE OrSources(G, n) \ {MinId(OrSources(G, n))}

RECURSIVE PrereqClosure(_, _)
PrereqClosure(G, S) ==
  LET T == S \cup UNION {Prereqs(G, x) : x \in S}
  IN IF T = S THEN S ELSE PrereqClosure(G, T)

VisitedOf(G, node_id) == DictGet(G[IndexOf(G, node_id)].data, "visited", "missing")

Before(path, p, n) ==
  \E i \in 1..Len(path), j \in 1..Len(path) : i < j /\ path[i] = p /\ path[j] = n

Traversed == last.op = "traverse_for_goal"
Goal == last.goal[1]

\* ------------------------------------------------------------ C1
\* C1 as claimed: in the returned plan every AND/IMPLIES source of a plan node
\* and its chosen OR source occur strictly earlier than the node, in every
\* graph, cyclic and NOT-blocked ones included.
C1_Original ==
  Traversed =>
    \A j \in 1..Len(last.path) : \A p \in Prereqs(nodes, last.path[j]) :
      Before(last.path, p, last.path[j])

\* C1 amended: each such prerequisite occurs strictly earlier than the node,
\* unless the prerequisite is NOT-blocked (a NOT source of it has a truthy
\* visited; it is then absent from the plan) or the prerequisite itself depends
\* on the node (a dependency cycle, a self-loop included; it is then the node
\* itself or occurs later).
C1_DependencyFirst ==
  Traversed =>
    \A j \in 1..Len(last.path) : \A p \in Prereqs(nodes, last.path[j]) :
      LET n == last.path[j]
      IN \/ Before(last.path, p, n)
         \/ /\ \E s \in NotSources(nodes, p) : Truthy(VisitedOf(nodes, s))
            /\ p \notin Range(last.path)
         \/ /\ n \in PrereqClosure(nodes, Prereqs(nodes, p))
            /\ p = n \/ Before(last.path, n, p)

\* A chain of three: two prerequisites ahead of the goal.
C1_Witness ==
  /\ Traversed
  /\ Len(last.path) = 3
  /\ \A j \in 1..3 : \A p \in Prereqs(nodes, last.path[j]) :
       Before(last.path, p, last.path[j])
  /\ Prereqs(nodes, last.path[3]) # {} /\ Prereqs(nodes, last.path[2]) # {}

\* ------------------------------------------------------------ C2
\* C2 as claimed: an OR source of a plan node other than the smallest-id one is
\* never visited in the pass and never in the plan.
C2_Original ==
  Traversed =>
    \A n \in Range(last.path) : \A o \in OtherOrSources(nodes, n) :
      o \notin last.visited /\ o \notin Range(last.path)

\* C2 amended: the OR step recurses into the smallest-id source only, so an OR
\* source other than it is visited (or in the plan) only when it is the goal
\* or is an AND/IMPLIES source or the chosen OR source of some plan node.
C2_OnlySmallest ==
  Traversed =>
    \A n \in Range(last.path) : \A o \in OtherOrSources(nodes, n) :
      (o \in last.visited \/ o \in Range(last.path)) =>
        \/ o = Goal
        \/ \E m \in Range(last.path) : o \in Prereqs(nodes, m)

\* Two OR sources into the goal, the larger one left alone.
C2_Witness ==
  /\ Traversed
  /\ Goal \in Range(last.path)
  /\ \E o \in OtherOrSources(nodes, Goal) :
       /\ o \notin last.visited
       /\ MinId(OrSources(nodes, Goal)) \in Range(last.path)
       /\ MinId(OrSources(nodes, Goal)) # Goal

\* ------------------------------------------------------------ C3
\* C3: the plan never holds a node with a NOT edge from a source whose
\* metadata has visited == True, goal or prerequisite alike.
C3_NotBlocks ==
  Traversed =>
    \A n \in Range(last.path) :
      ~ \E s \in NotSources(nodes, n) : VisitedOf(nodes, s) = "True"

\* A blocked prerequisite: reached by the pass, left out of a non-empty plan.
C3_Witness ==
  /\ Traversed
  /\ last.path # <<>>
  /\ \E n \in last.visited \ {Goal} :
       /\ \E s \in NotSources(nodes, n) : VisitedOf(nodes, s) = "True"
       /\ n \notin Range(last.path)

C10_Original ==
  (Traversed /\ Goal \in NodeIds(nodes)
   /\ \A s \in NotSources(nodes, Goal) : VisitedOf(nodes, s) # "True")
  => (last.path # <<>> /\ last.path[Len(last.path)] = Goal)

\* C10 amended: when no NOT source of an existing goal has a truthy visited
\* (visited missing, False or another falsy value), the plan is non-empty and
\* ends with the goal.
C10_GoalLast ==
  (Traversed /\ Goal \in NodeIds(nodes)
   /\ \A s \in NotSources(nodes, Goal) : ~Truthy(VisitedOf(nodes, s)))
  => (last.path # <<>> /\ last.path[Len(last.path)] = Goal)

\* A goal with a NOT source whose visited is False, after a prerequisite.
C10_Witness ==
  /\ Traversed
  /\ \E s \in NotSources(nodes, Goal) : VisitedOf(nodes, s) = "False"
  /\ Len(last.path) = 2
  /\ last.path[2] = Goal

\* ------------------------------------------------------------ C4
RefIntegrity(G) ==
  \A i \in 1..Len(G) : \A k \in 1..Len(G[i].edges) :
    /\ G[i].edges[k].source = G[i].id
    /\ G[i].edges[k].target \in NodeIds(G)

\* C4: after any sequence of add_node, add_edge, update_node, prune_node and
\* prune_failed_nodes calls every edge of every node has its source and its
\* target among the nodes present; and right after prune_node(x), x is absent
\* and no node owns an edge whose target is x.
C4_ReferentialIntegrity ==
  /\ [](RefIntegrity(nodes))
  /\ [][\A x \in Ids : PruneNode(x) =>
          /\ x \notin NodeIds(nodes')
          /\ \A i \in 1..Len(nodes') : \A k \in 1..Len(nodes'[i].edges) :
               nodes'[i].edges[k].target # x]_vars

\* A prune that took one node of two and two edges with it, the survivor left
\* with no edge.
C4_Witness ==
  /\ last.op = "prune_node"
  /\ last.info = <<2, 2>>
  /\ Len(nodes) = 1
  /\ NumEdges(nodes) = 0

\* ------------------------------------------------------------ C6
\* C6: add_node with an id already present leaves the whole graph as it was,
\* whatever type and data the call passes.
C6_IdempotentCreate ==
  [][(last'.op = "add_node" /\ last'.info # <<>>) => nodes' = nodes]_vars

\* Such a call, with a type or data other than the node's, on a node with an edge.
C6_Witness ==
  /\ last.op = "add_node"
  /\ last.info = <<1>>
  /\ NumEdges(nodes) > 0

\* ------------------------------------------------------------ C7
IsFailedTrue(G, i) == "failed" \in DOMAIN G[i].data /\ G[i].data["failed"] = "True"

\* C7: after prune_failed_nodes the ids are the prior ids less those whose
\* `failed` was True; every other node (failed False, missing, a string) is
\* still there, in its place, with its type and metadata.
C7_SelectivePruning ==
  [][last'.op = "prune_failed_nodes" =>
       LET kept == {i \in 1..Len(nodes) : ~IsFailedTrue(nodes, i)}
       IN /\ NodeIds(nodes') = {nodes[i].id : i \in kept}
          /\ Len(nodes') = Cardinality(kept)
          /\ \A i \in kept : \E j \in 1..Len(nodes') :
               /\ nodes'[j].id = nodes[i].id
               /\ nodes'[j].type = nodes[i].type
               /\ nodes'[j].data = nodes[i].data]_vars

\* One node of two pruned; the survivor's `failed` is a string.
C7_Witness ==
  /\ last.op = "prune_failed_nodes"
  /\ last.info[1] = 2
  /\ Len(nodes) = 1
  /\ DictGet(nodes[1].data, "failed", "missing") = "'yes'"

\* ------------------------------------------------------------ C8
\* C8: add_edge with an absent source or target raises and update_node with an
\* absent id raises; either way the graph is what it was before the call.
C8_FailFast ==
  [][/\ (last'.op = "add_edge" /\ last'.info # <<1, 1>>)
          => (last'.err = "KeyError" /\ nodes' = nodes)
     /\ (last'.op = "update_node" /\ last'.info = <<0>>)
          => (last'.err = "ValueError" /\ nodes' = nodes)]_vars

\* An add_edge whose target is absent, on a graph that has a node with
\* metadata and an edge.
C8_Witness ==
  /\ last.op = "add_edge"
  /\ last.info = <<1, 0>>
  /\ last.err = "KeyError"
  /\ Len(nodes) = 1
  /\ NumEdges(nodes) = 1
  /\ DOMAIN nodes[1].data # {}

\* ------------------------------------------------------------ C9
\* What is left of a running dfs: the nodes not yet visited weigh more than
\* all the calls one node can make.
Measure(G, st) ==
  LET K == 2 * (NumEdges(G) + 1) + 1
      W(f) == IF f.pc = "enter" THEN 1 ELSE 1 + 2 * Len(f.todo)
      RECURSIVE Sum(_)
      Sum(i) == IF i = 0 THEN 0 ELSE W(st.stack[i]) + Sum(i - 1)
  IN K * Cardinality(NodeIds(G) \ st.visited) + Sum(Len(st.stack))

NoDuplicates(path) == \A i \in 1..Len(path), j \in 1..Len(path) : path[i] = path[j] => i = j

\* At most one running call per node is past the visited guard, and none for
\* a node already in the path.
ProcessedOnce(st) ==
  /\ \A i \in 1..Len(st.stack), j \in 1..Len(st.stack) :
       (st.stack[i].pc = "loop" /\ st.stack[j].pc = "loop"
        /\ st.stack[i].node = st.stack[j].node) => i = j
  /\ \A i \in 1..Len(st.stack) :
       st.stack[i].pc = "loop" => st.stack[i].node \notin Range(st.path)

\* C9: traverse_for_goal terminates on every graph (cycles, self-loops and
\* parallel edges included): each dfs step shrinks Measure and a started call
\* returns; a node is processed at most once, the path never repeats an id and
\* holds only ids of nodes in the graph.
C9_Terminates ==
  /\ [](/\ ~Idle => Measure(nodes, DfsStep(nodes, call)) < Measure(nodes, call)
        /\ ProcessedOnce(call)
        /\ NoDuplicates(call.path) /\ Range(call.path) \subseteq NodeIds(nodes)
        /\ NoDuplicates(last.path) /\ Range(last.path) \subseteq NodeIds(nodes))
  /\ (~Idle ~> Idle)

\* A returned pass over a two-cycle.
C9_Witness ==
  /\ Traversed
  /\ Len(last.path) = 2
  /\ NumEdges(nodes) = 2
  /\ last.path[1] \in Prereqs(nodes, last.path[2])
  /\ last.path[2] \in Prereqs(nodes, last.path[1])

====
